---------------------------- MODULE Spec2Model ----------------------------
(***************************************************************************)
(* Model of the procedural Braille generators of Blender-Braille-Script:   *)
(*   src/braille_text.py          generate_braille_text ("scripted")       *)
(*   src/blender/braille_text.py  generate_braille_text ("blender")        *)
(*                                                                         *)
(* A behaviour is one input text and a list of successive calls of         *)
(* generate_braille_text on it, each call naming the file whose function   *)
(* is called and the keyword arguments it is called with.  The calls run   *)
(* one after the other (the scripts are sequential Python); every step of  *)
(* the layout loop that emits a cell is one action.                        *)
(*                                                                         *)
(* Lengths are exact multiples of a unit: Python floats are modelled by    *)
(* integers, and the arguments that the code halves (base_height, and the  *)
(* spacings that enter the plate centre) are even, so that Python's true   *)
(* division by 2 is \div 2.  Floating-point rounding is not modelled.      *)
(* Python sequences are 0-based, the model's are 1-based.                  *)
(***************************************************************************)
EXTENDS Integers, Sequences, FiniteSets, TLC

VARIABLES
    text,               \* text_input, a sequence of characters
    calls,              \* the successive calls: <<[variant, cfg], ...>>
    k,                  \* index of the call being executed
    pc,                 \* position in generate_braille_text
    lines,              \* lines = text_input.split('\n')
    num_lines,          \* num_lines = len(lines)
    line_idx,           \* position of `for line in lines`
    words,              \* words = line.split(' ')
    word_index,         \* position of `for word_index, word in enumerate(words)`
    char_idx,           \* position of `for char in word.lower()`
    current_x,
    current_y,
    cells_this_line,    \* `cells` in src/blender/braille_text.py
    max_cells_in_line,  \* `max_cells` in src/blender/braille_text.py
    dots,               \* the create_braille_dot calls made so far, in order
    all_dots,           \* blender only: the list of dot objects
    emitted,            \* history: the cells counted so far, in order
    line_counts,        \* history: cells_this_line at the end of each line
    plate,              \* <<>>, or <<the primitive_cube_add call and its scale>>
    outcome,            \* "running", "nothing", "complete" or "IndexError"
    results             \* what each finished call did

vars == <<text, calls, k, pc, lines, num_lines, line_idx, words, word_index,
          char_idx, current_x, current_y, cells_this_line, max_cells_in_line,
          dots, all_dots, emitted, line_counts, plate, outcome, results>>

(***************************************************************************)
(* Bounds of the model                                                     *)
(***************************************************************************)
MaxLen == 3

SP == " "
NL == "\n"
\* U+0130, LATIN CAPITAL LETTER I WITH DOT ABOVE, and U+0307, COMBINING DOT
\* ABOVE: the one character whose str.lower() is two characters long.
IDOT == "U+0130"
CDOT == "U+0307"

Alphabet == {"a", "A", "1", "!", SP, NL}

ExampleTexts ==
    { <<"H","i",SP,"t","h","e","r","e">>,
      <<"H","I",SP,"t","h","e","r","e">>,
      <<"a","b",NL,"c","d">>,
      <<"a",SP,SP,"b",SP>>,
      <<IDOT>>,
      <<"a",IDOT,SP,"A">> }

Texts == UNION { [1..n -> Alphabet] : n \in 0..MaxLen } \cup ExampleTexts

(***************************************************************************)
(* Python's str methods, as the code uses them                             *)
(***************************************************************************)
UpperLetters == <<"A","B","C","D","E","F","G","H","I","J","K","L","M",
                  "N","O","P","Q","R","S","T","U","V","W","X","Y","Z">>
LowerLetters == <<"a","b","c","d","e","f","g","h","i","j","k","l","m",
                  "n","o","p","q","r","s","t","u","v","w","x","y","z">>

Range(s) == { s[i] : i \in DOMAIN s }

\* c.isupper() of one character
char_isupper(c) == c \in Range(UpperLetters) \cup {IDOT}

\* c.islower() of one character
char_islower(c) == c \in Range(LowerLetters)

\* word.isupper() taken as "every character is an uppercase letter"
str_isupper_every(w) ==
    /\ w # <<>>
    /\ \A i \in DOMAIN w : char_isupper(w[i])

\* word.isupper(): no cased character is lowercase, and there is at least
\* one cased character
str_isupper(w) ==
    /\ \A i \in DOMAIN w : ~char_islower(w[i])
    /\ \E i \in DOMAIN w : char_isupper(w[i])

\* c.lower() of one character: a string
char_lower(c) ==
    IF c = IDOT THEN <<"i", CDOT>>
    ELSE IF \E i \in DOMAIN UpperLetters : UpperLetters[i] = c
         THEN <<LowerLetters[CHOOSE i \in DOMAIN UpperLetters : UpperLetters[i] = c]>>
         ELSE <<c>>

RECURSIVE str_lower(_)
\* word.lower()
str_lower(w) ==
    IF w = <<>> THEN <<>> ELSE char_lower(Head(w)) \o str_lower(Tail(w))

RECURSIVE SplitFrom(_, _, _)
\* the segments of s after the segment cur, which is still being read
SplitFrom(s, sep, cur) ==
    IF s = <<>> THEN <<cur>>
    ELSE IF Head(s) = sep
         THEN <<cur>> \o SplitFrom(Tail(s), sep, <<>>)
         ELSE SplitFrom(Tail(s), sep, Append(cur, Head(s)))

\* s.split(sep) for a one-character separator
str_split(s, sep) == SplitFrom(s, sep, <<>>)

(***************************************************************************)
(* braille_map                                                             *)
(***************************************************************************)
braille_map ==
    [ a |-> <<1,0,0,0,0,0>>, b |-> <<1,1,0,0,0,0>>, c |-> <<1,0,0,1,0,0>>,
      d |-> <<1,0,0,1,1,0>>, e |-> <<1,0,0,0,1,0>>, f |-> <<1,1,0,1,0,0>>,
      g |-> <<1,1,0,1,1,0>>, h |-> <<1,1,0,0,1,0>>, i |-> <<0,1,0,1,0,0>>,
      j |-> <<0,1,0,1,1,0>>, k |-> <<1,0,1,0,0,0>>, l |-> <<1,1,1,0,0,0>>,
      m |-> <<1,0,1,1,0,0>>, n |-> <<1,0,1,1,1,0>>, o |-> <<1,0,1,0,1,0>>,
      p |-> <<1,1,1,1,0,0>>, q |-> <<1,1,1,1,1,0>>, r |-> <<1,1,1,0,1,0>>,
      s |-> <<0,1,1,1,0,0>>, t |-> <<0,1,1,1,1,0>>, u |-> <<1,0,1,0,0,1>>,
      v |-> <<1,1,1,0,0,1>>, w |-> <<0,1,0,1,1,1>>, x |-> <<1,0,1,1,0,1>>,
      y |-> <<1,0,1,1,1,1>>, z |-> <<1,0,1,0,1,1>>,
      CAPS |-> <<0,0,0,0,0,1>> ]
    @@ ( "1" :> <<1,0,0,0,0,0>> @@ "2" :> <<1,1,0,0,0,0>> @@ "3" :> <<1,0,0,1,0,0>>
      @@ "4" :> <<1,0,0,1,1,0>> @@ "5" :> <<1,0,0,0,1,0>> @@ "6" :> <<1,1,0,1,0,0>>
      @@ "7" :> <<1,1,0,1,1,0>> @@ "8" :> <<1,1,0,0,1,0>> @@ "9" :> <<0,1,0,1,0,0>>
      @@ "0" :> <<0,1,0,1,1,0>> )

\* braille_map.get(char, [0,0,0,0,0,0])
map_get(char) ==
    IF char \in DOMAIN braille_map THEN braille_map[char] ELSE <<0,0,0,0,0,0>>

(***************************************************************************)
(* The keyword arguments of a call                                         *)
(***************************************************************************)
ConfigA ==
    [ dot_radius |-> 1, dot_height |-> 3, dot_spacing_x |-> 2, dot_spacing_y |-> 4,
      cell_spacing_x |-> 6, line_spacing_y |-> 10, base_height |-> 8,
      padding_x |-> 5, padding_y |-> 7 ]

ConfigB ==
    [ dot_radius |-> 2, dot_height |-> 1, dot_spacing_x |-> 4, dot_spacing_y |-> 2,
      cell_spacing_x |-> 8, line_spacing_y |-> 12, base_height |-> 6,
      padding_x |-> 3, padding_y |-> 1 ]

Configs == {ConfigA, ConfigB}

\* arguments the code accepts although they are not all positive: the
\* function does not check the sign of any of them
ConfigNegativeLineSpacing ==
    [ dot_radius |-> 1, dot_height |-> 3, dot_spacing_x |-> 2, dot_spacing_y |-> 4,
      cell_spacing_x |-> 6, line_spacing_y |-> -10, base_height |-> 8,
      padding_x |-> 5, padding_y |-> 7 ]

PadDeltas == {3}

Variants == {"scripted", "blender"}

CallOf(v, c) == [variant |-> v, cfg |-> c]

\* the same text through both files with the same arguments, and through one
\* file with arguments that differ in one padding only
Scenarios ==
    { <<CallOf("scripted", c), CallOf("blender", c)>> :
        c \in Configs \cup {ConfigNegativeLineSpacing} }
    \cup { <<CallOf(v, c), CallOf(v, [c EXCEPT !.padding_x = @ + d])>> :
             v \in Variants, c \in Configs, d \in PadDeltas }
    \cup { <<CallOf(v, c), CallOf(v, [c EXCEPT !.padding_y = @ + d])>> :
             v \in Variants, c \in Configs, d \in PadDeltas }

variant == calls[k].variant
cfg == calls[k].cfg


(***************************************************************************)
(* The dots of one cell                                                    *)
(***************************************************************************)
\* the table with its rows numbered from the bottom
dot_relative_positions_bottom_up(c) ==
    << <<0, 0>>, <<0, c.dot_spacing_y>>, <<0, 2 * c.dot_spacing_y>>,
       <<c.dot_spacing_x, 0>>, <<c.dot_spacing_x, c.dot_spacing_y>>,
       <<c.dot_spacing_x, 2 * c.dot_spacing_y>> >>

\* dot_relative_positions of src/braille_text.py (entry i+1 is Python's i)
dot_relative_positions(c) ==
    << <<0, 2 * c.dot_spacing_y>>, <<0, c.dot_spacing_y>>, <<0, 0>>,
       <<c.dot_spacing_x, 2 * c.dot_spacing_y>>,
       <<c.dot_spacing_x, c.dot_spacing_y>>, <<c.dot_spacing_x, 0>> >>

\* dot_positions of src/blender/braille_text.py
dot_positions(c) ==
    << <<0, 2 * c.dot_spacing_y>>, <<0, c.dot_spacing_y>>, <<0, 0>>,
       <<c.dot_spacing_x, 2 * c.dot_spacing_y>>,
       <<c.dot_spacing_x, c.dot_spacing_y>>, <<c.dot_spacing_x, 0>> >>

\* create_braille_dot(location, radius, height), as the call that is made
DotCall(loc, radius, height) ==
    [location |-> loc, radius |-> radius, height |-> height]

\* the location a cell at (x, y) gives the dot whose offset is rel
dot_location(rel, x, y, c) == <<x + rel[1], y + rel[2], c.base_height \div 2>>

RECURSIVE generate_cell_from(_, _, _, _, _)
\* _generate_cell of src/braille_text.py, from `for i in range(6)` at i on
generate_cell_from(i, pattern, x, y, c) ==
    IF i > 6 THEN <<>>
    ELSE (IF pattern[i] = 1
          THEN <<DotCall(dot_location(dot_relative_positions(c)[i], x, y, c),
                         c.dot_radius, c.dot_height)>>
          ELSE <<>>)
         \o generate_cell_from(i + 1, pattern, x, y, c)

\* _generate_cell(pattern, x, y): the create_braille_dot calls it makes
generate_cell(pattern, x, y, c) == generate_cell_from(1, pattern, x, y, c)

RECURSIVE add_cell_from(_, _, _, _, _)
\* add_cell of src/blender/braille_text.py, from `for i in range(6)` at i on
add_cell_from(i, pattern, x, y, c) ==
    IF i > 6 THEN <<>>
    ELSE (IF pattern[i] # 0
          THEN <<DotCall(dot_location(dot_positions(c)[i], x, y, c),
                         c.dot_radius, c.dot_height)>>
          ELSE <<>>)
         \o add_cell_from(i + 1, pattern, x, y, c)

\* add_cell(pattern, x, y): the create_braille_dot calls it makes
add_cell(pattern, x, y, c) == add_cell_from(1, pattern, x, y, c)

\* the dot calls of one cell, by the file whose function is running
CellDots(v, pattern, x, y, c) ==
    IF v = "scripted" THEN generate_cell(pattern, x, y, c)
    ELSE add_cell(pattern, x, y, c)

\* all_dots.append(dot) for each dot made (blender); the objects are named by
\* their position among the create_braille_dot calls
AppendHandles(v, handles, made, n) ==
    IF v = "scripted" THEN handles
    ELSE handles \o [j \in 1..n |-> made + j]

(***************************************************************************)
(* The base plate                                                          *)
(***************************************************************************)
\* the span with one cell pitch per cell instead of one per gap
origin_span_x_per_cell(mc, c) == mc * c.cell_spacing_x + c.dot_spacing_x

\* src/braille_text.py
\* the top row taken one dot pitch above the cell origin instead of two
highest_y_origin_one_row(c) == c.dot_spacing_y
origin_span_x(mc, c) == (mc - 1) * c.cell_spacing_x + c.dot_spacing_x
highest_y_origin(c) == 2 * c.dot_spacing_y
lowest_y_origin(nl, c) == -((nl - 1) * c.line_spacing_y)
origin_span_y(nl, c) == highest_y_origin(c) - lowest_y_origin(nl, c)
geom_width(mc, c) == origin_span_x(mc, c) + (2 * c.dot_radius)
geom_depth(nl, c) == origin_span_y(nl, c) + (2 * c.dot_radius)
\* the padding added on one side only
base_width_one_side(mc, c) == geom_width(mc, c) + c.padding_x
base_width(mc, c) == geom_width(mc, c) + (2 * c.padding_x)
base_depth(nl, c) == geom_depth(nl, c) + (2 * c.padding_y)
base_center_x(mc, c) == origin_span_x(mc, c) \div 2
base_center_y(nl, c) == (highest_y_origin(c) + lowest_y_origin(nl, c)) \div 2

\* primitive_cube_add(location=...) and base_obj.scale = ...
create_base(mc, nl, c) ==
    [location |-> <<base_center_x(mc, c), base_center_y(nl, c), 0>>,
     scale |-> <<base_width(mc, c), base_depth(nl, c), c.base_height>>]

\* src/blender/braille_text.py
span_x(mc, c) == (mc - 1) * c.cell_spacing_x + c.dot_spacing_x
top_y(c) == 2 * c.dot_spacing_y
bottom_y(nl, c) == -((nl - 1) * c.line_spacing_y)
span_y(nl, c) == top_y(c) - bottom_y(nl, c)
geom_width_b(mc, c) == span_x(mc, c) + 2 * c.dot_radius
geom_depth_b(nl, c) == span_y(nl, c) + 2 * c.dot_radius
base_width_b(mc, c) == geom_width_b(mc, c) + 2 * c.padding_x
base_depth_b(nl, c) == geom_depth_b(nl, c) + 2 * c.padding_y
center_x(mc, c) == span_x(mc, c) \div 2
center_y(nl, c) == (top_y(c) + bottom_y(nl, c)) \div 2

create_base_b(mc, nl, c) ==
    [location |-> <<center_x(mc, c), center_y(nl, c), 0>>,
     scale |-> <<base_width_b(mc, c), base_depth_b(nl, c), c.base_height>>]

\* `if cells_this_line > max_cells_in_line: max_cells_in_line = cells_this_line`
update_max(mx, cells) == IF cells > mx THEN cells ELSE mx

\* the count of the last line instead of the largest
update_max_last(mx, cells) == cells

\* `max_cells = max(max_cells, cells)`
update_max_b(mx, cells) == IF mx >= cells THEN mx ELSE cells


(***************************************************************************)
(* generate_braille_text, step by step                                     *)
(***************************************************************************)
word == words[word_index]

\* one cell counted at the cursor: its kind, the word it belongs to, the
\* pattern handed to the cell helper (none for the cells that are only
\* counted) and the cursor it was counted at
Cell(kind, pattern) ==
    [kind |-> kind, line |-> line_idx, word |-> word_index,
     pattern |-> pattern, x |-> current_x, y |-> current_y]

\* the cursor moved by the dot pitch instead of the cell pitch
Advance_dot_pitch(kind, pattern) ==
    /\ current_x' = current_x + cfg.dot_spacing_x
    /\ cells_this_line' = cells_this_line + 1
    /\ emitted' = Append(emitted, Cell(kind, pattern))

\* `current_x += cell_spacing_x; cells_this_line += 1`
Advance(kind, pattern) ==
    /\ current_x' = current_x + cfg.cell_spacing_x
    /\ cells_this_line' = cells_this_line + 1
    /\ emitted' = Append(emitted, Cell(kind, pattern))

\* `_generate_cell(pattern, current_x, current_y)` / `add_cell(...)`, then the
\* advance of the cursor
EmitCell(kind, pattern) ==
    LET made == CellDots(variant, pattern, current_x, current_y, cfg)
    IN  /\ dots' = dots \o made
        /\ all_dots' = AppendHandles(variant, all_dots, Len(dots), Len(made))
        /\ Advance(kind, pattern)

Init ==
    /\ text \in Texts
    /\ calls \in Scenarios
    /\ k = 1
    /\ pc = "call"
    /\ lines = <<>>
    /\ num_lines = 0
    /\ line_idx = 0
    /\ words = <<>>
    /\ word_index = 0
    /\ char_idx = 0
    /\ current_x = 0
    /\ current_y = 0
    /\ cells_this_line = 0
    /\ max_cells_in_line = 0
    /\ dots = <<>>
    /\ all_dots = <<>>
    /\ emitted = <<>>
    /\ line_counts = <<>>
    /\ plate = <<>>
    /\ outcome = "running"
    /\ results = <<>>

\* entry of generate_braille_text: clear_scene(), the tables, and the
\* assignments before `for line in lines`
Call ==
    /\ pc = "call"
    /\ pc' = "line"
    /\ current_y' = 0
    /\ max_cells_in_line' = 0
    /\ lines' = str_split(text, NL)
    /\ num_lines' = Len(str_split(text, NL))
    /\ line_idx' = 1
    /\ dots' = <<>>
    /\ all_dots' = <<>>
    /\ emitted' = <<>>
    /\ line_counts' = <<>>
    /\ plate' = <<>>
    /\ outcome' = "running"
    /\ UNCHANGED <<text, calls, k, words, word_index, char_idx, current_x,
                   cells_this_line, results>>

\* `for line in lines:` takes the next line
StartLine ==
    /\ pc = "line"
    /\ line_idx <= Len(lines)
    /\ current_x' = 0
    /\ cells_this_line' = 0
    /\ words' = str_split(lines[line_idx], SP)
    /\ word_index' = 1
    /\ pc' = "word"
    /\ UNCHANGED <<text, calls, k, lines, num_lines, line_idx, char_idx,
                   current_y, max_cells_in_line, dots, all_dots, emitted,
                   line_counts, plate, outcome, results>>

\* an empty word skipped without a cell
EmptyWord_skipped ==
    /\ pc = "word"
    /\ word_index <= Len(words)
    /\ word = <<>>
    /\ word_index' = word_index + 1
    /\ UNCHANGED <<text, calls, k, pc, lines, num_lines, line_idx, words,
                   char_idx, current_x, current_y, cells_this_line,
                   max_cells_in_line, dots, all_dots, emitted, line_counts,
                   plate, outcome, results>>

\* `if not word:` one cell is counted, `continue`
EmptyWord ==
    /\ pc = "word"
    /\ word_index <= Len(words)
    /\ word = <<>>
    /\ Advance("empty", <<>>)
    /\ word_index' = word_index + 1
    /\ UNCHANGED <<text, calls, k, pc, lines, num_lines, line_idx, words,
                   char_idx, current_y, max_cells_in_line, dots, all_dots,
                   line_counts, plate, outcome, results>>

\* `if word.isupper() and len(word) > 1:` the first pass of `for _ in range(2)`
CapsWord ==
    /\ pc = "word"
    /\ word_index <= Len(words)
    /\ word # <<>>
    /\ str_isupper(word) /\ Len(word) > 1
    /\ EmitCell("caps", braille_map["CAPS"])
    /\ pc' = "caps2"
    /\ UNCHANGED <<text, calls, k, lines, num_lines, line_idx, words,
                   word_index, char_idx, current_y, max_cells_in_line,
                   line_counts, plate, outcome, results>>

\* the second pass of `for _ in range(2)`
CapsWordAgain ==
    /\ pc = "caps2"
    /\ EmitCell("caps", braille_map["CAPS"])
    /\ pc' = "chars"
    /\ char_idx' = 1
    /\ UNCHANGED <<text, calls, k, lines, num_lines, line_idx, words,
                   word_index, current_y, max_cells_in_line, line_counts,
                   plate, outcome, results>>

\* `elif word and word[0].isupper():`
CapsFirst ==
    /\ pc = "word"
    /\ word_index <= Len(words)
    /\ word # <<>>
    /\ ~(str_isupper(word) /\ Len(word) > 1)
    /\ char_isupper(word[1])
    /\ EmitCell("caps", braille_map["CAPS"])
    /\ pc' = "chars"
    /\ char_idx' = 1
    /\ UNCHANGED <<text, calls, k, lines, num_lines, line_idx, words,
                   word_index, current_y, max_cells_in_line, line_counts,
                   plate, outcome, results>>

\* neither branch of the capitalization logic is taken
NoCaps ==
    /\ pc = "word"
    /\ word_index <= Len(words)
    /\ word # <<>>
    /\ ~(str_isupper(word) /\ Len(word) > 1)
    /\ ~char_isupper(word[1])
    /\ pc' = "chars"
    /\ char_idx' = 1
    /\ UNCHANGED <<text, calls, k, lines, num_lines, line_idx, words,
                   word_index, current_x, current_y, cells_this_line,
                   max_cells_in_line, dots, all_dots, emitted, line_counts,
                   plate, outcome, results>>

\* one pass of `for char in word.lower():`
Char ==
    /\ pc = "chars"
    /\ char_idx <= Len(str_lower(word))
    /\ EmitCell("char", map_get(str_lower(word)[char_idx]))
    /\ char_idx' = char_idx + 1
    /\ UNCHANGED <<text, calls, k, pc, lines, num_lines, line_idx, words,
                   word_index, current_y, max_cells_in_line, line_counts,
                   plate, outcome, results>>

\* `if word_index < len(words) - 1:` a space cell is counted after the word
\* (Python's word_index is the model's word_index - 1)
WordGap ==
    /\ pc = "chars"
    /\ char_idx > Len(str_lower(word))
    /\ word_index - 1 < Len(words) - 1
    /\ Advance("gap", <<>>)
    /\ word_index' = word_index + 1
    /\ pc' = "word"
    /\ UNCHANGED <<text, calls, k, lines, num_lines, line_idx, words,
                   char_idx, current_y, max_cells_in_line, dots, all_dots,
                   line_counts, plate, outcome, results>>

\* the last word of the line: no space cell
LastWord ==
    /\ pc = "chars"
    /\ char_idx > Len(str_lower(word))
    /\ ~(word_index - 1 < Len(words) - 1)
    /\ word_index' = word_index + 1
    /\ pc' = "word"
    /\ UNCHANGED <<text, calls, k, lines, num_lines, line_idx, words,
                   char_idx, current_x, current_y, cells_this_line,
                   max_cells_in_line, dots, all_dots, emitted, line_counts,
                   plate, outcome, results>>

\* the end of the body of `for line in lines:`
EndLine ==
    /\ pc = "word"
    /\ word_index > Len(words)
    /\ max_cells_in_line' =
           IF variant = "scripted"
           THEN update_max(max_cells_in_line, cells_this_line)
           ELSE update_max_b(max_cells_in_line, cells_this_line)
    /\ current_y' = current_y - cfg.line_spacing_y
    /\ line_counts' = Append(line_counts, cells_this_line)
    /\ line_idx' = line_idx + 1
    /\ pc' = "line"
    /\ UNCHANGED <<text, calls, k, lines, num_lines, words, word_index,
                   char_idx, current_x, cells_this_line, dots, all_dots,
                   emitted, plate, outcome, results>>

\* after the loop: `if max_cells_in_line == 0: return`, else the base cube
CreateBase ==
    /\ pc = "line"
    /\ line_idx > Len(lines)
    /\ IF max_cells_in_line = 0
       THEN /\ outcome' = "nothing"
            /\ pc' = "return"
            /\ plate' = plate
       ELSE /\ plate' = << IF variant = "scripted"
                            THEN create_base(max_cells_in_line, num_lines, cfg)
                            ELSE create_base_b(max_cells_in_line, num_lines, cfg) >>
            /\ pc' = "join"
            /\ outcome' = outcome
    /\ UNCHANGED <<text, calls, k, lines, num_lines, line_idx, words,
                   word_index, char_idx, current_x, current_y,
                   cells_this_line, max_cells_in_line, dots, all_dots,
                   emitted, line_counts, results>>

\* what the statements that join the dots do: scripted selects every mesh by
\* type and joins; blender makes all_dots[0] the active object, which raises
\* IndexError on an empty list
join_outcome(v, handles) ==
    IF v = "blender" /\ handles = <<>> THEN "IndexError" ELSE "complete"

Join ==
    /\ pc = "join"
    /\ outcome' = join_outcome(variant, all_dots)
    /\ pc' = "return"
    /\ UNCHANGED <<text, calls, k, lines, num_lines, line_idx, words,
                   word_index, char_idx, current_x, current_y,
                   cells_this_line, max_cells_in_line, dots, all_dots,
                   emitted, line_counts, plate, results>>

\* what a finished call did
Result ==
    [variant |-> variant, cfg |-> cfg, outcome |-> outcome,
     emitted |-> emitted, dots |-> dots, all_dots |-> all_dots,
     max_cells |-> max_cells_in_line, num_lines |-> num_lines,
     line_counts |-> line_counts, plate |-> plate]

\* the call ends; the next call of the scenario, if any, follows
Return ==
    /\ pc = "return"
    /\ results' = Append(results, Result)
    /\ IF k < Len(calls)
       THEN k' = k + 1 /\ pc' = "call"
       ELSE k' = k /\ pc' = "end"
    /\ UNCHANGED <<text, calls, lines, num_lines, line_idx, words,
                   word_index, char_idx, current_x, current_y,
                   cells_this_line, max_cells_in_line, dots, all_dots,
                   emitted, line_counts, plate, outcome>>

Next ==
    \/ Call
    \/ StartLine
    \/ EmptyWord
    \/ CapsWord
    \/ CapsWordAgain
    \/ CapsFirst
    \/ NoCaps
    \/ Char
    \/ WordGap
    \/ LastWord
    \/ EndLine
    \/ CreateBase
    \/ Join
    \/ Return

Spec == Init /\ [][Next]_vars


(***************************************************************************)
(* Vocabulary of the properties                                            *)
(***************************************************************************)
Finished == DOMAIN results

TextLines == str_split(text, NL)
LineWords(l) == str_split(TextLines[l], SP)

\* the words of the text that are not empty, as <<line, word>> positions
NonEmptyWords ==
    { lw \in (DOMAIN TextLines) \X (1..(Len(text) + 1)) :
        /\ lw[2] \in DOMAIN LineWords(lw[1])
        /\ LineWords(lw[1])[lw[2]] # <<>> }

\* the positions in the history em of the cells of kind kd of word lw
CellsOf(em, lw, kd) ==
    { j \in DOMAIN em : em[j].line = lw[1] /\ em[j].word = lw[2] /\ em[j].kind = kd }

IsLetter(c) == char_isupper(c) \/ char_islower(c)

CapsPattern == <<0,0,0,0,0,1>>
BlankPattern == <<0,0,0,0,0,0>>

\* the CAPS cells of word lw are the n cells right before its character
\* cells, and each has the CAPS pattern
CapsCellsAre(em, lw, n) ==
    LET caps == CellsOf(em, lw, "caps")
        chars == CellsOf(em, lw, "char")
        first == CHOOSE j \in chars : \A j2 \in chars : j <= j2
    IN  /\ chars # {}
        /\ caps = (first - n)..(first - 1)
        /\ \A j \in caps : em[j].pattern = CapsPattern

(***************************************************************************)
(* C1: for a text that is empty or holds only newline markers, layout ends *)
(* with a maximum cell count of 0 and the "nothing to place" result, and   *)
(* creates no plate.                                                       *)
(***************************************************************************)
OnlyNewlines == \A j \in DOMAIN text : text[j] = NL

C1_EmptyTextNothingToPlace ==
    \A i \in Finished :
        OnlyNewlines =>
            /\ results[i].max_cells = 0
            /\ results[i].outcome = "nothing"
            /\ results[i].plate = <<>>

(***************************************************************************)
(* C2: before the character cells of every non-empty word come 2 CAPS      *)
(* cells if the word is longer than 1 and every letter in it is uppercase, *)
(* else 1 if its first character is uppercase, else 0; each CAPS cell has  *)
(* the pattern [0,0,0,0,0,1]; "Hi there" has 9 cells, "HI there" has 10.   *)
(***************************************************************************)
EveryLetterUpper(w) == \A j \in DOMAIN w : IsLetter(w[j]) => char_isupper(w[j])
HasLetter(w) == \E j \in DOMAIN w : IsLetter(w[j])

\* the count as the claim words it
CapsCountAsClaimed(w) ==
    IF Len(w) > 1 /\ EveryLetterUpper(w) THEN 2
    ELSE IF char_isupper(w[1]) THEN 1 ELSE 0

\* the count with the whole-word rule asking for at least one letter
CapsCountAmended(w) ==
    IF Len(w) > 1 /\ HasLetter(w) /\ EveryLetterUpper(w) THEN 2
    ELSE IF char_isupper(w[1]) THEN 1 ELSE 0

HiThere == <<"H","i",SP,"t","h","e","r","e">>
HIThere == <<"H","I",SP,"t","h","e","r","e">>

ExamplesCounted(r) ==
    /\ text = HiThere => r.line_counts = <<9>>
    /\ text = HIThere => r.line_counts = <<10>>

\* the claim as written: a word without any letter ("11", "!!") counts as
\* "every letter uppercase"
C2_CapsCountAsWritten ==
    \A i \in Finished : \A lw \in NonEmptyWords :
        /\ CapsCellsAre(results[i].emitted, lw,
                        CapsCountAsClaimed(LineWords(lw[1])[lw[2]]))
        /\ ExamplesCounted(results[i])

\* C2, amended: 2 CAPS cells if the word is longer than 1, holds at least
\* one letter and every letter in it is uppercase; else 1 if its first
\* character is uppercase; else 0.
C2_CapsCount ==
    \A i \in Finished : \A lw \in NonEmptyWords :
        /\ CapsCellsAre(results[i].emitted, lw,
                        CapsCountAmended(LineWords(lw[1])[lw[2]]))
        /\ ExamplesCounted(results[i])

\* a call has finished on "HI there": two CAPS cells, then h and i
C2_Witness ==
    /\ text = HIThere
    /\ Len(results) >= 1
    /\ Len(results[1].emitted) = 10
    /\ results[1].emitted[1].kind = "caps"
    /\ results[1].emitted[2].kind = "caps"
    /\ results[1].emitted[3].kind = "char"

(***************************************************************************)
(* C3: layout never ends with an error: it ends with "nothing to place" or *)
(* with a complete plan and plate, and whenever it goes on to build the    *)
(* plate the list of dots it indexes at position 0 is not empty.           *)
(***************************************************************************)
C3_NoFailure ==
    /\ outcome \in {"running", "nothing", "complete"}
    /\ (pc = "join" /\ variant = "blender") => all_dots # <<>>


(***************************************************************************)
(* C4: every character c of a word gives exactly one cell, with the        *)
(* pattern the map gives for lowercase(c) when that is a key and the       *)
(* all-false pattern otherwise; the cursor advances by cell_spacing_x for  *)
(* it, and an unmapped character places no dot.                            *)
(***************************************************************************)
\* lowercase(c) is a key of the character map (CAPS is no character)
LowerIsKey(c) ==
    /\ Len(char_lower(c)) = 1
    /\ char_lower(c)[1] \in (DOMAIN braille_map) \ {"CAPS"}

EncodeAsClaimed(c) ==
    IF LowerIsKey(c) THEN braille_map[char_lower(c)[1]] ELSE BlankPattern

\* the dot calls of r that lie on the grid of the cell counted at (x, y)
DotsAt(r, x, y) ==
    { d \in DOMAIN r.dots :
        /\ r.dots[d].location[1] \in {x, x + r.cfg.dot_spacing_x}
        /\ r.dots[d].location[2] \in
              {y, y + r.cfg.dot_spacing_y, y + 2 * r.cfg.dot_spacing_y} }

CharCellsAsClaimed(r, lw) ==
    LET w == LineWords(lw[1])[lw[2]]
        chars == CellsOf(r.emitted, lw, "char")
        first == CHOOSE j \in chars : \A j2 \in chars : j <= j2
    IN  /\ Cardinality(chars) = Len(w)
        /\ \A n \in 1..Len(w) :
              LET cell == r.emitted[first + n - 1]
              IN  /\ (first + n - 1) \in chars
                  /\ cell.pattern = EncodeAsClaimed(w[n])
                  /\ cell.x = r.emitted[first].x + (n - 1) * r.cfg.cell_spacing_x
                  /\ ~LowerIsKey(w[n]) => DotsAt(r, cell.x, cell.y) = {}

C4_OneCellPerCharacter ==
    \A i \in Finished : \A lw \in NonEmptyWords :
        CharCellsAsClaimed(results[i], lw)

(***************************************************************************)
(* C5: the dot placements are, in the order of the cells and in ascending  *)
(* bit index within a cell, one per active bit i of each cell, at          *)
(* (cell_x + dx_i, cell_y + dy_i, base_height / 2) with (dx_i, dy_i) the   *)
(* i-th entry of the table of the claim, carrying dot_radius and           *)
(* dot_height; blank cells place nothing; "a" gives the one placement      *)
(* (0, 2 * dot_spacing_y, base_height / 2).                                *)
(***************************************************************************)
ClaimedOffsets(c) ==
    << <<0, 2 * c.dot_spacing_y>>, <<0, c.dot_spacing_y>>, <<0, 0>>,
       <<c.dot_spacing_x, 2 * c.dot_spacing_y>>,
       <<c.dot_spacing_x, c.dot_spacing_y>>, <<c.dot_spacing_x, 0>> >>

\* the active bits of a cell, ascending, as <<x, y>> positions
ActiveBits(cell, c) ==
    LET on(i) == i \in DOMAIN cell.pattern /\ cell.pattern[i] = 1
        at(i) == <<cell.x + ClaimedOffsets(c)[i][1], cell.y + ClaimedOffsets(c)[i][2]>>
        F[i \in 1..7] == IF i = 7 THEN <<>>
                         ELSE (IF on(i) THEN <<at(i)>> ELSE <<>>) \o F[i + 1]
    IN  F[1]

RECURSIVE ClaimedPlacements(_, _)
ClaimedPlacements(em, c) ==
    IF em = <<>> THEN <<>>
    ELSE ActiveBits(Head(em), c) \o ClaimedPlacements(Tail(em), c)

PlacementsAsClaimed(r) ==
    LET want == ClaimedPlacements(r.emitted, r.cfg)
    IN  /\ Len(r.dots) = Len(want)
        /\ \A d \in DOMAIN r.dots :
              /\ r.dots[d].location[1] = want[d][1]
              /\ r.dots[d].location[2] = want[d][2]
              /\ 2 * r.dots[d].location[3] = r.cfg.base_height
              /\ r.dots[d].radius = r.cfg.dot_radius
              /\ r.dots[d].height = r.cfg.dot_height

C5_DotPlacements ==
    \A i \in Finished :
        /\ PlacementsAsClaimed(results[i])
        /\ text = <<"a">> =>
              /\ Len(results[i].dots) = 1
              /\ results[i].dots[1].location[1] = 0
              /\ results[i].dots[1].location[2] = 2 * results[i].cfg.dot_spacing_y

\* a call has finished on a text with a cell of several dots after other cells
C5_Witness ==
    /\ text = <<"a", "b", NL, "c", "d">>
    /\ Len(results) >= 1
    /\ Len(results[1].dots) = 8

(***************************************************************************)
(* C6: a plate has origin_span_x = (max_cells - 1) * cell_spacing_x +      *)
(* dot_spacing_x, top_y = 2 * dot_spacing_y, bottom_y = -((num_lines - 1)  *)
(* * line_spacing_y), base_width = origin_span_x + 2 * dot_radius +        *)
(* 2 * padding_x, base_depth = (top_y - bottom_y) + 2 * dot_radius +       *)
(* 2 * padding_y and centre (origin_span_x / 2, (top_y + bottom_y) / 2, 0),*)
(* with max_cells the largest cell count of a line and num_lines the       *)
(* number of lines; "ab\ncd" has 2 lines, max_cells 2 and line_spacing_y   *)
(* once in its y span.                                                     *)
(***************************************************************************)
MaxOf(sq) == CHOOSE m \in Range(sq) \cup {0} : \A j \in DOMAIN sq : sq[j] <= m

NewlinesIn(t) == Cardinality({ j \in DOMAIN t : t[j] = NL })

PlateAsClaimed(r) ==
    LET c == r.cfg
        mc == MaxOf(r.line_counts)
        nl == NewlinesIn(text) + 1
        spanx == (mc - 1) * c.cell_spacing_x + c.dot_spacing_x
        top == 2 * c.dot_spacing_y
        bottom == -((nl - 1) * c.line_spacing_y)
        p == r.plate[1]
    IN  /\ r.max_cells = mc
        /\ r.num_lines = nl
        /\ Len(r.line_counts) = nl
        /\ p.scale[1] = spanx + 2 * c.dot_radius + 2 * c.padding_x
        /\ p.scale[2] = (top - bottom) + 2 * c.dot_radius + 2 * c.padding_y
        /\ p.scale[3] = c.base_height
        /\ 2 * p.location[1] = spanx
        /\ 2 * p.location[2] = top + bottom
        /\ p.location[3] = 0

C6_PlateGeometry ==
    \A i \in Finished :
        results[i].plate # <<>> =>
            /\ PlateAsClaimed(results[i])
            /\ text = <<"a", "b", NL, "c", "d">> =>
                  /\ results[i].num_lines = 2
                  /\ results[i].max_cells = 2
                  /\ results[i].plate[1].scale[2]
                        = 2 * results[i].cfg.dot_spacing_y
                          + results[i].cfg.line_spacing_y
                          + 2 * results[i].cfg.dot_radius
                          + 2 * results[i].cfg.padding_y

\* a call has finished with a plate for a text of two lines of two cells
C6_Witness ==
    /\ text = <<"a", "b", NL, "c", "d">>
    /\ Len(results) >= 1
    /\ results[1].plate # <<>>
    /\ results[1].max_cells = 2


(***************************************************************************)
(* C7: a line that holds only space separators has a cell count of 0; it   *)
(* counts toward num_lines and its count enters the maximum, so a text     *)
(* whose lines all hold only separators has max_cells = 0.                 *)
(***************************************************************************)
SeparatorOnly(l) ==
    /\ TextLines[l] # <<>>
    /\ \A j \in DOMAIN TextLines[l] : TextLines[l][j] = SP

LinesCounted(r) ==
    /\ r.num_lines = Len(TextLines)
    /\ Len(r.line_counts) = Len(TextLines)
    /\ r.max_cells = MaxOf(r.line_counts)

DiffersOnlyIn(c1, c2, f) == c1[f] # c2[f] /\ [c1 EXCEPT ![f] = c2[f]] = c2

PaddingShift(r1, r2, f, axis) ==
    (DiffersOnlyIn(r1.cfg, r2.cfg, f) /\ r1.plate # <<>>) =>
        /\ r2.plate # <<>>
        /\ r2.plate[1].scale[axis] - r1.plate[1].scale[axis]
              = 2 * (r2.cfg[f] - r1.cfg[f])
        /\ r2.plate[1].scale[3 - axis] = r1.plate[1].scale[3 - axis]
        /\ r2.plate[1].scale[3] = r1.plate[1].scale[3]
        /\ r2.plate[1].location = r1.plate[1].location
        /\ r2.dots = r1.dots

C8_PaddingLinear ==
    \A i \in Finished : \A j \in Finished :
        /\ PaddingShift(results[i], results[j], "padding_x", 1)
        /\ PaddingShift(results[i], results[j], "padding_y", 2)

\* both calls of a scenario that changes padding_x have finished with a plate
C8_Witness ==
    /\ Len(results) = 2
    /\ DiffersOnlyIn(results[1].cfg, results[2].cfg, "padding_x")
    /\ results[1].plate # <<>>
    /\ results[1].dots # <<>>

(***************************************************************************)
(* C9: while a line is processed, current_x = cells counted on the line *  *)
(* cell_spacing_x and current_y = -(index of the line) * line_spacing_y;   *)
(* a line starts with current_x = 0 and cell count 0; every cell of every  *)
(* kind advances current_x by cell_spacing_x and the count by 1; current_y *)
(* changes only between lines, by -line_spacing_y; max_cells never         *)
(* decreases and after each line is the largest count of the lines so far. *)
(***************************************************************************)
CellsOnLine(em, l) == Cardinality({ j \in DOMAIN em : em[j].line = l })

C9_State ==
    /\ pc \in {"word", "caps2", "chars"} =>
          /\ current_x = cells_this_line * cfg.cell_spacing_x
          /\ current_y = -((line_idx - 1) * cfg.line_spacing_y)
          /\ cells_this_line = CellsOnLine(emitted, line_idx)
    /\ pc = "line" =>
          /\ current_y = -((line_idx - 1) * cfg.line_spacing_y)
          /\ max_cells_in_line = MaxOf(line_counts)
          /\ Len(line_counts) = line_idx - 1

C9_Step ==
    /\ (pc = "line" /\ pc' = "word") => (current_x' = 0 /\ cells_this_line' = 0)
    /\ Len(emitted') = Len(emitted) + 1 =>
          /\ current_x' = current_x + cfg.cell_spacing_x
          /\ cells_this_line' = cells_this_line + 1
          /\ current_y' = current_y
    /\ cells_this_line' # cells_this_line =>
          \/ cells_this_line' = cells_this_line + 1 /\ Len(emitted') = Len(emitted) + 1
          \/ pc = "line" /\ cells_this_line' = 0
    /\ current_x' # current_x =>
          \/ Len(emitted') = Len(emitted) + 1
          \/ pc = "line" /\ current_x' = 0
    /\ current_y' # current_y =>
          \/ pc = "word" /\ pc' = "line"
                /\ current_y' = current_y - cfg.line_spacing_y
          \/ pc = "call"
    /\ pc # "call" => max_cells_in_line' >= max_cells_in_line

SameLayout(r1, r2) ==
    /\ r1.emitted = r2.emitted
    /\ r1.dots = r2.dots
    /\ r1.max_cells = r2.max_cells
    /\ r1.num_lines = r2.num_lines
    /\ r1.line_counts = r2.line_counts
    /\ (r1.outcome = "nothing") <=> (r2.outcome = "nothing")
    /\ r1.plate = r2.plate

C10_VariantsAgree ==
    \A i \in Finished : \A j \in Finished :
        (results[i].variant # results[j].variant /\ results[i].cfg = results[j].cfg)
            => SameLayout(results[i], results[j])

\* both files have finished on the same text and configuration, with dots
\* and a plate
C10_Witness ==
    /\ Len(results) = 2
    /\ results[1].variant = "scripted"
    /\ results[2].variant = "blender"
    /\ results[1].cfg = results[2].cfg
    /\ results[2].plate # <<>>
    /\ Len(results[2].dots) >= 3
    /\ Len(results[2].line_counts) >= 2


(***************************************************************************)
(* C11: for a text that produces a plate and a configuration whose         *)
(* spacing, radius and padding values are all positive, every dot          *)
(* placement (x, y, z) has 0 <= x <= origin_span_x and bottom_y <= y <=    *)
(* top_y, so its disc of radius dot_radius lies inside the plate           *)
(* footprint: |x - base_center_x| + dot_radius <= base_width / 2 and       *)
(* |y - base_center_y| + dot_radius <= base_depth / 2, with a margin of at *)
(* least padding_x and padding_y.                                          *)
(***************************************************************************)
AllPositive(c) ==
    \A f \in {"dot_radius", "dot_spacing_x", "dot_spacing_y", "cell_spacing_x",
              "line_spacing_y", "padding_x", "padding_y"} : c[f] > 0

Abs(n) == IF n < 0 THEN -n ELSE n

\* the plate of r holds the disc of the dot at loc, with the padding to spare
\* (all lengths doubled, so that the halves of the claim are whole numbers)
DotInsidePlate(r, loc) ==
    LET c == r.cfg
        spanx == (MaxOf(r.line_counts) - 1) * c.cell_spacing_x + c.dot_spacing_x
        top == 2 * c.dot_spacing_y
        bottom == -(NewlinesIn(text) * c.line_spacing_y)
        p == r.plate[1]
    IN  /\ 0 <= loc[1] /\ loc[1] <= spanx
        /\ bottom <= loc[2] /\ loc[2] <= top
        /\ Abs(2 * loc[1] - 2 * p.location[1]) + 2 * c.dot_radius
              <= p.scale[1] - 2 * c.padding_x
        /\ Abs(2 * loc[2] - 2 * p.location[2]) + 2 * c.dot_radius
              <= p.scale[2] - 2 * c.padding_y

C11_DotsInsidePlate ==
    \A i \in Finished :
        (results[i].plate # <<>> /\ AllPositive(results[i].cfg)) =>
            \A d \in DOMAIN results[i].dots :
                DotInsidePlate(results[i], results[i].dots[d].location)

\* a call with positive arguments has finished with a plate and with dots on
\* the first and on the last line, in the top and in the bottom row
C11_Witness ==
    /\ text = <<"a", "b", NL, "c", "d">>
    /\ Len(results) >= 1
    /\ AllPositive(results[1].cfg)
    /\ results[1].plate # <<>>
    /\ \E d \in DOMAIN results[1].dots :
          results[1].dots[d].location[2] = 2 * results[1].cfg.dot_spacing_y
    /\ \E d \in DOMAIN results[1].dots :
          results[1].dots[d].location[2] < 0

(***************************************************************************)
(* C12: the cell count at the end of a line is the number of characters of *)
(* the line, spaces included, plus the number of CAPS cells emitted on the *)
(* line, plus 1 if the last word of the split line is empty (the line is   *)
(* empty or ends with a space); so every line counts at least 1 cell and a *)
(* trailing space adds two cells.                                          *)
(***************************************************************************)
CapsOnLine(em, l) ==
    Cardinality({ j \in DOMAIN em : em[j].line = l /\ em[j].kind = "caps" })

LastWordEmpty(l) == LineWords(l)[Len(LineWords(l))] = <<>>

LineCountAsClaimed(r, l) ==
    /\ r.line_counts[l]
          = Len(TextLines[l]) + CapsOnLine(r.emitted, l)
            + (IF LastWordEmpty(l) THEN 1 ELSE 0)
    /\ r.line_counts[l] >= 1

C12_LineCellCount ==
    \A i \in Finished :
        /\ Len(results[i].line_counts) = Len(TextLines)
        /\ \A l \in DOMAIN TextLines : LineCountAsClaimed(results[i], l)
        /\ text = <<"a", SP>> => results[i].line_counts = <<3>>

=============================================================================
